---- MODULE Spec2Model ----
(***************************************************************************)
(* Model of src/bot.py: VideoDownloaderBot, a Telegram bot that takes a    *)
(* video link, asks yt-dlp for the renditions, lets the user pick one,     *)
(* downloads it to video.<ext> in the working directory and sends it back. *)
(*                                                                         *)
(* The extraction library (yt-dlp) and the transport (python-telegram-bot) *)
(* are external: each of their calls is a nondeterministic choice over the *)
(* results the call can have (return value or exception).                  *)
(***************************************************************************)
EXTENDS Integers, Sequences, FiniteSets, TLC

VARIABLES user_data, disk, tasks, kb_in, kb_out

vars == <<user_data, disk, tasks, kb_in, kb_out>>

(***************************************************************************)
(* Bounds of the model.                                                    *)
(***************************************************************************)
NumUsers == 2
MaxFormats == 2
MaxIdParts == 2
MaxMenuFormats == 6

(***************************************************************************)
(* Program constants.                                                      *)
(***************************************************************************)
TELEGRAM_MAX_SIZE == 50 * 1024 * 1024

\* Application.builder().token(...).build(): concurrent_updates is left at
\* its default, so one update is handled at a time.
MaxConcurrentUpdates == 1

Tasks == 1..MaxConcurrentUpdates
Users == 1..NumUsers

None == "<None>"

\* The texts of the bot's replies, by the line that sends them.
Greeting == "greeting"
RejectNotice == "send a link to a YouTube, Instagram or TikTok video"
Analyzing == "analyzing the link"
NoInfoNotice == "could not get video info"
UnavailableNotice == "video unavailable for download"
ChooseQuality == "choose quality"
ExpiredNotice == "session expired, send the link again"
Downloading == "downloading video"
DownloadError == "download error"
TooBigNotice == "video too big (max 50MB)"
GenericError == "an error occurred"

(***************************************************************************)
(* Strings: str.strip, the `in` operator, str.startswith, str.replace.     *)
(***************************************************************************)
Whitespace == {" ", "\t", "\n"}

RECURSIVE LStrip(_)
LStrip(s) ==
    IF Len(s) > 0 /\ SubSeq(s, 1, 1) \in Whitespace
    THEN LStrip(SubSeq(s, 2, Len(s)))
    ELSE s

RECURSIVE RStrip(_)
RStrip(s) ==
    IF Len(s) > 0 /\ SubSeq(s, Len(s), Len(s)) \in Whitespace
    THEN RStrip(SubSeq(s, 1, Len(s) - 1))
    ELSE s

Strip(s) == RStrip(LStrip(s))

\* d in s
Contains(d, s) ==
    \E i \in 1..(Len(s) - Len(d) + 1) : SubSeq(s, i, i + Len(d) - 1) = d

StartsWith(s, p) == Len(s) >= Len(p) /\ SubSeq(s, 1, Len(p)) = p

\* s.replace(old, new): every non-overlapping occurrence, left to right
RECURSIVE Replace(_, _, _)
Replace(s, old, new) ==
    IF Len(s) < Len(old) THEN s
    ELSE IF SubSeq(s, 1, Len(old)) = old
         THEN new \o Replace(SubSeq(s, Len(old) + 1, Len(s)), old, new)
         ELSE SubSeq(s, 1, 1) \o Replace(SubSeq(s, 2, Len(s)), old, new)

\* dict.get(k, default)
Get(d, k, default) == IF k \in DOMAIN d THEN d[k] ELSE default

(***************************************************************************)
(* Inputs.                                                                 *)
(***************************************************************************)
\* Texts a user may send (filters.TEXT & ~filters.COMMAND).
Texts == {" youtu.be/abc123 ", "tiktok.com/v", "example.com/video", "you tube.com"}

\* Renditions the gateway may report: dicts whose optional keys may be absent.
Renditions ==
    { [format_id |-> "22", height |-> 720, ext |-> "mp4", vcodec |-> "avc1"],
      [format_id |-> "140", ext |-> "m4a", vcodec |-> "none"],
      [format_id |-> "0", ext |-> "mp4"] }

RECURSIVE SeqsUpTo(_, _)
SeqsUpTo(S, n) ==
    IF n = 0 THEN {<<>>}
    ELSE LET shorter == SeqsUpTo(S, n - 1)
         IN  shorter \cup {Append(q, x) : q \in {r \in shorter : Len(r) = n - 1}, x \in S}

FormatLists == SeqsUpTo(Renditions, MaxFormats)

\* Callback data of the button clicks that reach quality_handler
\* (CallbackQueryHandler pattern "^quality_").
CallbackData == {"quality_best", "quality_22", "quality_0"}

\* Extensions and sizes of the files the gateway may write: a file exactly
\* at the limit and one a byte over it.
Exts == {"mp4", "webm"}
Sizes == {TELEGRAM_MAX_SIZE, TELEGRAM_MAX_SIZE + 1}

(***************************************************************************)
(* get_quality_keyboard and the filter of handle_message.                  *)
(***************************************************************************)
Button(fmt) ==
    [text |-> (IF "height" \in DOMAIN fmt THEN ToString(fmt.height) ELSE "?")
                 \o "p (" \o Get(fmt, "ext", "mp4") \o ")",
     callback_data |-> "quality_" \o fmt.format_id]

BestButton == [text |-> "optimal quality", callback_data |-> "quality_best"]

\* FirstFive without the slice: every rendition gets a button
FirstFive_all(formats) == formats

\* formats[:5]
FirstFive(formats) == SubSeq(formats, 1, IF Len(formats) < 5 THEN Len(formats) ELSE 5)

get_quality_keyboard(formats) ==
    LET shown == FirstFive(formats)
    IN  [i \in 1..(Len(shown) + 1) |->
            IF i <= Len(shown) THEN <<Button(shown[i])>> ELSE <<BestButton>>]

\* IsVideoFormat with a missing vcodec read as 'none'
IsVideoFormat_present(f) == Get(f, "vcodec", "none") # "none"

\* f.get('vcodec') != 'none'
IsVideoFormat(f) == Get(f, "vcodec", None) # "none"

\* video_formats_of without the filter
video_formats_of_unfiltered(formats) == formats

RECURSIVE video_formats_of(_)
video_formats_of(formats) ==
    IF formats = <<>> THEN <<>>
    ELSE LET rest == video_formats_of(Tail(formats))
         IN  IF IsVideoFormat(Head(formats)) THEN <<Head(formats)>> \o rest ELSE rest

\* any(d in text for d in [...])
Domains == {"youtube.com", "youtu.be", "instagram.com", "tiktok.com"}
\* any(d for d in [...]): the test on the text is lost
IsRecognized_always(text) == \E d \in Domains : Len(d) > 0
IsRecognized(text) == \E d \in Domains : Contains(d, text)

(***************************************************************************)
(* State.                                                                  *)
(***************************************************************************)
IdleTask ==
    [kind |-> "idle", pc |-> "idle", user |-> 0, raw |-> None, text |-> None,
     data |-> None, quality |-> None, url |-> None, video_path |-> None,
     wrote |-> None, info |-> None,
     formats |-> <<>>, video_formats |-> <<>>, markup |-> <<>>, size |-> 0,
     calls |-> <<>>, escaped |-> FALSE, ud0 |-> <<>>]

\* user_data: dict user_id -> {'url': ...}; a function on the users that have an entry.
Init ==
    /\ user_data = <<>>
    /\ disk = [n \in {"bot.py"} |-> [size |-> 1, url |-> None]]
    /\ tasks = [t \in Tasks |-> IdleTask]
    /\ kb_in = <<>>
    /\ kb_out = <<>>

\* the dispatcher takes the next update when the handler of the last one is over
Free(t) == tasks[t].pc = "idle"

\* the handler (or, after an exception, error_handler) has returned
handler_return(t) ==
    /\ tasks[t].pc = "done"
    /\ tasks' = [tasks EXCEPT ![t] = IdleTask]
    /\ UNCHANGED <<user_data, disk, kb_in, kb_out>>

Call(op, a, b, ok) == [op |-> op, a |-> a, b |-> b, ok |-> ok]

\* The task table after an awaited transport call: the call is recorded
\* and the handler goes on (next) when it returned, to onfail when it raised.
Awaited(t, op, a, ok, next, onfail) ==
    [tasks EXCEPT ![t].calls = Append(@, Call(op, a, "", ok)),
                  ![t].pc = IF ok THEN next ELSE onfail]

(***************************************************************************)
(* start                                                                   *)
(***************************************************************************)
start_begin(t, u) ==
    /\ Free(t)
    /\ tasks' = [tasks EXCEPT ![t] =
                   [IdleTask EXCEPT !.kind = "start", !.user = u, !.pc = "start_reply",
                                    !.ud0 = user_data]]
    /\ UNCHANGED <<user_data, disk, kb_in, kb_out>>

start_reply(t) ==
    /\ tasks[t].pc = "start_reply"
    /\ \E ok \in BOOLEAN : tasks' = Awaited(t, "reply_text", Greeting, ok, "done", "raised")
    /\ UNCHANGED <<user_data, disk, kb_in, kb_out>>

(***************************************************************************)
(* handle_message                                                          *)
(***************************************************************************)
\* handle_message_begin without the acknowledgment of line 80
handle_message_begin_noack(t, u, raw) ==
    /\ Free(t)
    /\ LET text == Strip(raw)
       IN  tasks' = [tasks EXCEPT ![t] =
                       [IdleTask EXCEPT !.kind = "message", !.user = u, !.raw = raw,
                                        !.text = text,
                                        !.ud0 = user_data,
                                        !.pc = IF IsRecognized(text) THEN "hm_info"
                                                                     ELSE "hm_reject"]]
    /\ UNCHANGED <<user_data, disk, kb_in, kb_out>>

\* lines 73-78: strip the text, test it against the domain list
handle_message_begin(t, u, raw) ==
    /\ Free(t)
    /\ LET text == Strip(raw)
       IN  tasks' = [tasks EXCEPT ![t] =
                       [IdleTask EXCEPT !.kind = "message", !.user = u, !.raw = raw,
                                        !.text = text,
                                        !.ud0 = user_data,
                                        !.pc = IF IsRecognized(text) THEN "hm_ack"
                                                                     ELSE "hm_reject"]]
    /\ UNCHANGED <<user_data, disk, kb_in, kb_out>>

\* hm_reject without the return of line 78
hm_reject_noreturn(t) ==
    /\ tasks[t].pc = "hm_reject"
    /\ \E ok \in BOOLEAN : tasks' = Awaited(t, "reply_text", RejectNotice, ok, "hm_ack", "raised")
    /\ UNCHANGED <<user_data, disk, kb_in, kb_out>>

\* line 77
hm_reject(t) ==
    /\ tasks[t].pc = "hm_reject"
    /\ \E ok \in BOOLEAN : tasks' = Awaited(t, "reply_text", RejectNotice, ok, "done", "raised")
    /\ UNCHANGED <<user_data, disk, kb_in, kb_out>>

\* line 80
hm_ack(t) ==
    /\ tasks[t].pc = "hm_ack"
    /\ \E ok \in BOOLEAN : tasks' = Awaited(t, "reply_text", Analyzing, ok, "hm_info", "raised")
    /\ UNCHANGED <<user_data, disk, kb_in, kb_out>>

\* lines 81-94: get_video_info, the filter, and the write of the session.
\* store_session as dict.setdefault: an entry already there is kept
store_session_keepfirst(ud, u, text) == ud @@ (u :> [url |-> text])

\* store_session on one session shared by all users
store_session_global(ud, u, text) == [v \in Users |-> [url |-> text]]

\* line 94: self.user_data[user_id] = {'url': text}
store_session(ud, u, text) == (u :> [url |-> text]) @@ ud

\* The gateway raises (get_video_info logs and returns None), returns None,
\* returns a dict without 'formats', or returns a dict with a formats list.
hm_info(t) ==
    /\ tasks[t].pc = "hm_info"
    /\ \E res \in {"raise", "none", "noformats", "formats"}, fl \in FormatLists :
         LET me == tasks[t]
             info == IF res \in {"raise", "none"} THEN None ELSE "dict"
             formats == IF res = "formats" THEN fl ELSE <<>>
             video_formats == video_formats_of(formats)
             logged == IF res = "raise"
                       THEN <<Call("logger.error", "Video info error", "", TRUE)>>
                       ELSE <<>>
             calls == Append(me.calls, Call("extract_info", me.text, "", res # "raise"))
                         \o logged
         IN  /\ res # "formats" => fl = <<>>
             /\ IF info = None
                THEN /\ tasks' = [tasks EXCEPT ![t].calls = calls, ![t].info = info,
                                               ![t].pc = "hm_noinfo"]
                     /\ UNCHANGED user_data
                ELSE IF video_formats = <<>>
                THEN /\ tasks' = [tasks EXCEPT ![t].calls = calls, ![t].info = info,
                                               ![t].formats = formats,
                                               ![t].pc = "hm_unavailable"]
                     /\ UNCHANGED user_data
                ELSE /\ tasks' = [tasks EXCEPT ![t].calls = calls, ![t].info = info,
                                               ![t].formats = formats,
                                               ![t].video_formats = video_formats,
                                               ![t].pc = "hm_menu"]
                     /\ user_data' = store_session(user_data, me.user, me.text)
    /\ UNCHANGED <<disk, kb_in, kb_out>>

\* hm_noinfo without the return of line 85
hm_noinfo_noreturn(t) ==
    /\ tasks[t].pc = "hm_noinfo"
    /\ \E ok \in BOOLEAN : tasks' = Awaited(t, "reply_text", NoInfoNotice, ok, "hm_menu", "raised")
    /\ UNCHANGED <<user_data, disk, kb_in, kb_out>>

\* line 84
hm_noinfo(t) ==
    /\ tasks[t].pc = "hm_noinfo"
    /\ \E ok \in BOOLEAN : tasks' = Awaited(t, "reply_text", NoInfoNotice, ok, "done", "raised")
    /\ UNCHANGED <<user_data, disk, kb_in, kb_out>>

\* line 91
hm_unavailable(t) ==
    /\ tasks[t].pc = "hm_unavailable"
    /\ \E ok \in BOOLEAN : tasks' = Awaited(t, "reply_text", UnavailableNotice, ok, "done", "raised")
    /\ UNCHANGED <<user_data, disk, kb_in, kb_out>>

\* lines 95-98: the menu is built, then sent
hm_menu(t) ==
    /\ tasks[t].pc = "hm_menu"
    /\ \E ok \in BOOLEAN :
         tasks' = [tasks EXCEPT
                     ![t].markup = get_quality_keyboard(tasks[t].video_formats),
                     ![t].calls = Append(@, Call("reply_text", ChooseQuality, "markup", ok)),
                     ![t].pc = IF ok THEN "done" ELSE "raised"]
    /\ UNCHANGED <<user_data, disk, kb_in, kb_out>>

(***************************************************************************)
(* error_handler: an exception that left a handler is logged.              *)
(***************************************************************************)
error_handler(t) ==
    /\ tasks[t].pc = "raised"
    /\ tasks' = [tasks EXCEPT ![t].calls = Append(@, Call("logger.error", "Exception:", "", TRUE)),
                              ![t].escaped = TRUE,
                              ![t].pc = "done"]
    /\ UNCHANGED <<user_data, disk, kb_in, kb_out>>

(***************************************************************************)
(* download_video and quality_handler                                      *)
(***************************************************************************)
\* os.listdir(): the names in the working directory
listdir(d) == DOMAIN d

\* os.remove(f)
remove(d, f) == [n \in (DOMAIN d) \ {f} |-> d[n]]

\* the file the gateway writes for outtmpl 'video.%(ext)s'
outtmpl(ext) == "video." \o ext

\* the names download_video may return after the download: the loop returns
\* the first name of os.listdir() that starts with 'video.', and the order
\* of os.listdir() is arbitrary
Candidates(d) == {f \in listdir(d) : StartsWith(f, "video.")}

\* Selector with COMPRESSED_QUALITY (line 20) standing in for 'best'
Selector_compressed(quality) == IF quality = "best" THEN "480p" ELSE quality

\* 'best' if quality == 'best' else quality
Selector(quality) == IF quality = "best" THEN "best" ELSE quality

\* if os.path.getsize(video_path) > TELEGRAM_MAX_SIZE
TooBig(size) == size > TELEGRAM_MAX_SIZE

quality_handler_begin(t, u, data) ==
    /\ Free(t)
    /\ StartsWith(data, "quality_")
    /\ tasks' = [tasks EXCEPT ![t] =
                   [IdleTask EXCEPT !.kind = "quality", !.user = u, !.data = data,
                                    !.ud0 = user_data, !.pc = "qh_answer"]]
    /\ UNCHANGED <<user_data, disk, kb_in, kb_out>>

\* qh_answer without the session test of lines 128-130
qh_answer_nocheck(t) ==
    /\ tasks[t].pc = "qh_answer"
    /\ \E ok \in BOOLEAN :
         LET me == tasks[t]
             quality == Replace(me.data, "quality_", "")
             url == IF me.user \in DOMAIN user_data THEN user_data[me.user].url ELSE None
             calls == Append(me.calls, Call("answer", "", "", ok))
         IN  IF ~ok
             THEN tasks' = [tasks EXCEPT ![t].calls = calls, ![t].pc = "raised"]
             ELSE tasks' = [tasks EXCEPT ![t].calls = calls, ![t].quality = quality,
                                         ![t].url = url, ![t].pc = "qh_status"]
    /\ UNCHANGED <<user_data, disk, kb_in, kb_out>>

\* lines 122-130: answer the query, parse the token, look the session up
qh_answer(t) ==
    /\ tasks[t].pc = "qh_answer"
    /\ \E ok \in BOOLEAN :
         LET me == tasks[t]
             quality == Replace(me.data, "quality_", "")
             url == IF me.user \in DOMAIN user_data THEN user_data[me.user].url ELSE None
             calls == Append(me.calls, Call("answer", "", "", ok))
         IN  IF ~ok
             THEN tasks' = [tasks EXCEPT ![t].calls = calls, ![t].pc = "raised"]
             ELSE tasks' = [tasks EXCEPT ![t].calls = calls, ![t].quality = quality,
                                         ![t].url = url,
                                         ![t].pc = IF url = None \/ url = ""
                                                   THEN "qh_expired" ELSE "qh_status"]
    /\ UNCHANGED <<user_data, disk, kb_in, kb_out>>

\* line 129
qh_expired(t) ==
    /\ tasks[t].pc = "qh_expired"
    /\ \E ok \in BOOLEAN : tasks' = Awaited(t, "edit_message_text", ExpiredNotice, ok, "done", "raised")
    /\ UNCHANGED <<user_data, disk, kb_in, kb_out>>

\* line 132, before the try
qh_status(t) ==
    /\ tasks[t].pc = "qh_status"
    /\ \E ok \in BOOLEAN : tasks' = Awaited(t, "edit_message_text", Downloading, ok, "qh_download", "raised")
    /\ UNCHANGED <<user_data, disk, kb_in, kb_out>>

\* lines 135-140 with download_video (lines 100-117): nothing is awaited
\* between the download and the size test.  The gateway raises (logged, None
\* is returned), returns without writing a file, or writes video.<ext>.
qh_download(t) ==
    /\ tasks[t].pc = "qh_download"
    /\ \E res \in {"raise", "skip", "file"}, ext \in Exts, size \in Sizes :
         LET me == tasks[t]
             written == IF res = "file"
                        THEN (outtmpl(ext) :> [size |-> size, url |-> me.url]) @@ disk
                        ELSE disk
             found == IF res = "raise" THEN {} ELSE Candidates(written)
             dl == <<Call("download", me.url, Selector(me.quality), res # "raise")>>
                     \o (IF res = "raise"
                         THEN <<Call("logger.error", "Download error", "", TRUE)>>
                         ELSE <<Call("listdir", "", "", TRUE)>>)
         IN  /\ res # "file" => (ext = "mp4" /\ size = TELEGRAM_MAX_SIZE)
             /\ disk' = written
             /\ IF found = {}
                THEN tasks' = [tasks EXCEPT ![t].calls = @ \o dl,
                                            ![t].wrote = None,
                                            ![t].pc = "qh_dlerror"]
                ELSE \E video_path \in found :
                       tasks' = [tasks EXCEPT
                                   ![t].calls = @ \o dl \o
                                       <<Call("getsize", video_path, "", TRUE)>>,
                                   ![t].video_path = video_path,
                                   ![t].wrote = IF res = "file" THEN outtmpl(ext)
                                                                 ELSE None,
                                   ![t].size = written[video_path].size,
                                   ![t].pc = IF TooBig(written[video_path].size)
                                             THEN "qh_toobig" ELSE "qh_send"]
    /\ UNCHANGED <<user_data, kb_in, kb_out>>

\* qh_dlerror without the return of line 138: getsize(None) then raises
qh_dlerror_noreturn(t) ==
    /\ tasks[t].pc = "qh_dlerror"
    /\ \E ok \in BOOLEAN :
         tasks' = Awaited(t, "edit_message_text", DownloadError, ok, "qh_except", "qh_except")
    /\ UNCHANGED <<user_data, disk, kb_in, kb_out>>

\* line 137, inside the try
qh_dlerror(t) ==
    /\ tasks[t].pc = "qh_dlerror"
    /\ \E ok \in BOOLEAN : tasks' = Awaited(t, "edit_message_text", DownloadError, ok, "done", "qh_except")
    /\ UNCHANGED <<user_data, disk, kb_in, kb_out>>

\* lines 141-143: the notice, then os.remove
qh_toobig(t) ==
    /\ tasks[t].pc = "qh_toobig"
    /\ \E ok \in BOOLEAN, removed \in BOOLEAN :
         LET me == tasks[t]
             edit == Call("edit_message_text", TooBigNotice, "", ok)
         IN  /\ ~ok => removed = FALSE
             /\ IF ~ok
                THEN /\ tasks' = [tasks EXCEPT ![t].calls = Append(@, edit),
                                               ![t].pc = "qh_except"]
                     /\ UNCHANGED disk
                ELSE /\ tasks' = [tasks EXCEPT
                                    ![t].calls = @ \o <<edit,
                                        Call("remove", me.video_path, "", removed)>>,
                                    ![t].pc = IF removed THEN "done" ELSE "qh_except"]
                     /\ disk' = IF removed THEN remove(disk, me.video_path) ELSE disk
    /\ UNCHANGED <<user_data, kb_in, kb_out>>

\* qh_send with the upload outside the try: its exception leaves the handler
qh_send_notry(t) ==
    /\ tasks[t].pc = "qh_send"
    /\ \E ok \in BOOLEAN, removed \in BOOLEAN :
         LET me == tasks[t]
             send == <<Call("open", me.video_path, "", TRUE),
                       Call("send_video", me.video_path, disk[me.video_path].url, ok)>>
         IN  /\ ~ok => removed = FALSE
             /\ IF ~ok
                THEN /\ tasks' = [tasks EXCEPT ![t].calls = @ \o send,
                                               ![t].pc = "raised"]
                     /\ UNCHANGED disk
                ELSE /\ tasks' = [tasks EXCEPT
                                    ![t].calls = @ \o send \o
                                        <<Call("remove", me.video_path, "", removed)>>,
                                    ![t].pc = IF removed THEN "done" ELSE "raised"]
                     /\ disk' = IF removed THEN remove(disk, me.video_path) ELSE disk
    /\ UNCHANGED <<user_data, kb_in, kb_out>>

\* lines 145-151: open the file, send it, then os.remove
qh_send(t) ==
    /\ tasks[t].pc = "qh_send"
    /\ \E ok \in BOOLEAN, removed \in BOOLEAN :
         LET me == tasks[t]
             send == <<Call("open", me.video_path, "", TRUE),
                       Call("send_video", me.video_path, disk[me.video_path].url, ok)>>
         IN  /\ ~ok => removed = FALSE
             /\ IF ~ok
                THEN /\ tasks' = [tasks EXCEPT ![t].calls = @ \o send,
                                               ![t].pc = "qh_except"]
                     /\ UNCHANGED disk
                ELSE /\ tasks' = [tasks EXCEPT
                                    ![t].calls = @ \o send \o
                                        <<Call("remove", me.video_path, "", removed)>>,
                                    ![t].pc = IF removed THEN "done" ELSE "qh_except"]
                     /\ disk' = IF removed THEN remove(disk, me.video_path) ELSE disk
    /\ UNCHANGED <<user_data, kb_in, kb_out>>

\* lines 153-155: the except branch logs and edits the message
qh_except(t) ==
    /\ tasks[t].pc = "qh_except"
    /\ \E ok \in BOOLEAN :
         tasks' = [tasks EXCEPT
                     ![t].calls = @ \o <<Call("logger.error", "Error", "", TRUE),
                                         Call("edit_message_text", GenericError, "", ok)>>,
                     ![t].pc = IF ok THEN "done" ELSE "raised"]
    /\ UNCHANGED <<user_data, disk, kb_in, kb_out>>

(***************************************************************************)
(* The bot: run() registers the three handlers and the error handler.      *)
(***************************************************************************)
Next ==
    \E t \in Tasks :
        \/ \E u \in Users : start_begin(t, u)
        \/ start_reply(t)
        \/ \E u \in Users, raw \in Texts : handle_message_begin(t, u, raw)
        \/ hm_reject(t)
        \/ hm_ack(t)
        \/ hm_info(t)
        \/ hm_noinfo(t)
        \/ hm_unavailable(t)
        \/ hm_menu(t)
        \/ \E u \in Users, data \in CallbackData : quality_handler_begin(t, u, data)
        \/ qh_answer(t)
        \/ qh_expired(t)
        \/ qh_status(t)
        \/ qh_download(t)
        \/ qh_dlerror(t)
        \/ qh_toobig(t)
        \/ qh_send(t)
        \/ qh_except(t)
        \/ error_handler(t)
        \/ handler_return(t)

Spec == Init /\ [][Next]_vars

(***************************************************************************)
(* The Quality Menu Builder on its own: every rendition list up to         *)
(* MaxMenuFormats entries is given to get_quality_keyboard.                *)
(***************************************************************************)
MenuInit ==
    /\ user_data = <<>>
    /\ disk = [n \in {"bot.py"} |-> [size |-> 1, url |-> None]]
    /\ tasks = [t \in Tasks |-> IdleTask]
    /\ kb_in \in SeqsUpTo(Renditions, MaxMenuFormats)
    /\ kb_out = <<>>

MenuBuild ==
    /\ kb_out = <<>>
    /\ kb_out' = get_quality_keyboard(kb_in)
    /\ UNCHANGED <<user_data, disk, tasks, kb_in>>

MenuNext == MenuBuild

MenuSpec == MenuInit /\ [][MenuNext]_vars

(***************************************************************************)
(* The quality selection on its own: a menu is built for a rendition whose *)
(* identifier is any string made of up to MaxIdParts parts, one of its     *)
(* buttons is clicked and quality_handler runs on the button's token.      *)
(* User 1 has a PendingRequest, the other users have none.                 *)
(***************************************************************************)
IdParts == {"quality_", "hd", "22"}

RECURSIVE Ids(_)
Ids(n) ==
    IF n = 1 THEN IdParts
    ELSE Ids(n - 1) \cup {a \o b : a \in Ids(n - 1), b \in IdParts}

QualityInit ==
    /\ user_data = <<[url |-> "youtu.be/abc123"]>>
    /\ disk = [n \in {"bot.py"} |-> [size |-> 1, url |-> None]]
    /\ tasks = [t \in Tasks |-> IdleTask]
    /\ kb_in \in {<<[format_id |-> id, ext |-> "mp4"]>> : id \in Ids(MaxIdParts)}
    /\ kb_out = <<>>

\* the steps of a handler that has been started
HandlerStep(t) ==
    \/ qh_answer(t)
    \/ qh_expired(t)
    \/ qh_status(t)
    \/ qh_download(t)
    \/ qh_dlerror(t)
    \/ qh_toobig(t)
    \/ qh_send(t)
    \/ qh_except(t)
    \/ error_handler(t)

QualityNext ==
    \/ MenuBuild
    \/ \E t \in Tasks :
          \/ \E u \in Users, i \in DOMAIN kb_out :
                quality_handler_begin(t, u, kb_out[i][1].callback_data)
          \/ HandlerStep(t)
          \/ handler_return(t)

QualitySpec == QualityInit /\ [][QualityNext]_vars

\* The event loop runs a started handler on: every awaited call returns or
\* raises, and the handler then takes its next step.
FairQualitySpec == QualitySpec /\ \A t \in Tasks : WF_vars(HandlerStep(t))

TypeOK ==
    /\ DOMAIN user_data \subseteq Users
    /\ \A t \in Tasks : tasks[t].pc \in
         {"idle", "done", "raised", "start_reply", "hm_reject", "hm_ack", "hm_info",
          "hm_noinfo", "hm_unavailable", "hm_menu", "qh_answer", "qh_expired",
          "qh_status", "qh_download", "qh_dlerror", "qh_toobig", "qh_send", "qh_except"}

(***************************************************************************)
(* Reading a handler's record of calls.                                    *)
(***************************************************************************)
TransportOps == {"reply_text", "answer", "edit_message_text", "send_video"}
FileOps == {"listdir", "getsize", "open", "remove"}

CallsOf(t) == tasks[t].calls
HasOp(t, op) == \E i \in DOMAIN CallsOf(t) : CallsOf(t)[i].op = op
HasCall(t, op, a) == \E i \in DOMAIN CallsOf(t) : CallsOf(t)[i].op = op /\ CallsOf(t)[i].a = a
Failed(t, op, a) ==
    \E i \in DOMAIN CallsOf(t) :
        CallsOf(t)[i].op = op /\ CallsOf(t)[i].a = a /\ ~CallsOf(t)[i].ok
FailedOp(t, op) == \E i \in DOMAIN CallsOf(t) : CallsOf(t)[i].op = op /\ ~CallsOf(t)[i].ok
Succeeded(t, op) == \E i \in DOMAIN CallsOf(t) : CallsOf(t)[i].op = op /\ CallsOf(t)[i].ok

\* the transport calls of the handler, in order, as <<operation, text>>
Sent(t) ==
    LET tc == SelectSeq(CallsOf(t), LAMBDA c : c.op \in TransportOps)
    IN  [i \in DOMAIN tc |-> <<tc[i].op, tc[i].a>>]

Over(t, kind) == tasks[t].kind = kind /\ tasks[t].pc = "done"

(***************************************************************************)
(* C1: after any terminal outcome of the download flow no video.* file     *)
(* remains on disk.  Stated for the flows in which no os.remove call       *)
(* itself failed: the code leaves the file behind when the upload or the   *)
(* size notice raises, because os.remove is then never called.            *)
(***************************************************************************)
C1_NoResidualFile ==
    \A t \in Tasks :
        (Over(t, "quality") /\ HasOp(t, "download") /\ ~FailedOp(t, "remove"))
            => Candidates(disk) = {}

(***************************************************************************)
(* C2: once a user's quality selection has run its download flow to the    *)
(* end (delivery or error), that user has no PendingRequest any more.      *)
(* The code never removes an entry of user_data.                           *)
(***************************************************************************)
C2_SessionEndsWithSelection ==
    \A t \in Tasks :
        (Over(t, "quality") /\ (Succeeded(t, "send_video")
                                 \/ HasCall(t, "edit_message_text", GenericError)))
            => tasks[t].user \notin DOMAIN user_data

(***************************************************************************)
(* C3 as stated: any failure in steps 3-7 of quality_handler (the          *)
(* 'downloading' status edit, a notice edit, the upload, the deletion) is  *)
(* caught inside the handler and leads to the generic error edit; the only *)
(* exception that may leave the handler is that of the generic edit.       *)
(***************************************************************************)
FailedInTry(t) ==
    \/ Failed(t, "edit_message_text", DownloadError)
    \/ Failed(t, "edit_message_text", TooBigNotice)
    \/ FailedOp(t, "send_video")
    \/ FailedOp(t, "remove")

StatusEditFailed(t) == Failed(t, "edit_message_text", Downloading)

GenericEditIssued(t) == HasCall(t, "edit_message_text", GenericError)

NoDomain(text) ==
    /\ ~Contains("youtube.com", text)
    /\ ~Contains("youtu.be", text)
    /\ ~Contains("instagram.com", text)
    /\ ~Contains("tiktok.com", text)

C4_RejectOnly ==
    \A t \in Tasks :
        (tasks[t].kind = "message" /\ NoDomain(tasks[t].text))
            => /\ user_data = tasks[t].ud0
               /\ ~HasOp(t, "extract_info")
               /\ tasks[t].markup = <<>>
               /\ Sent(t) = IF tasks[t].pc = "hm_reject" THEN <<>>
                            ELSE << <<"reply_text", RejectNotice>> >>

C4_Witness ==
    \E t \in Tasks :
        /\ Over(t, "message")
        /\ NoDomain(tasks[t].text)
        /\ DOMAIN user_data # {}
        /\ Sent(t) = << <<"reply_text", RejectNotice>> >>

C6_SizeBoundary ==
    \A t \in Tasks :
        (Over(t, "quality") /\ tasks[t].video_path # None /\ ~FailedOp(t, "remove"))
            => /\ tasks[t].size <= 52428800 => HasOp(t, "send_video")
               /\ tasks[t].size > 52428800
                    => /\ HasCall(t, "edit_message_text", TooBigNotice)
                       /\ ~HasOp(t, "send_video")
                       /\ tasks[t].video_path \notin DOMAIN disk

(***************************************************************************)
(* C7: for a rendition list of length N, get_quality_keyboard returns      *)
(* min(N,5)+1 rows of one button: row i carries the identifier of the i-th *)
(* rendition, the last row is the 'best' button.                           *)
(***************************************************************************)
C7_MenuLayout ==
    kb_out # <<>>
        => LET n == Len(kb_in)
               m == IF n < 5 THEN n ELSE 5
           IN  /\ Len(kb_out) = m + 1
               /\ \A i \in 1..(m + 1) : Len(kb_out[i]) = 1
               /\ \A i \in 1..m :
                     kb_out[i][1].callback_data = "quality_" \o kb_in[i].format_id
               /\ kb_out[m + 1][1].callback_data = "quality_best"

C7_Witness == Len(kb_in) > 5 /\ Len(kb_out) = 6

(***************************************************************************)
(* C8 as stated: the list handed to the quality menu is the gateway list   *)
(* restricted to the renditions that have a vcodec field and are not       *)
(* audio-only.                                                             *)
(***************************************************************************)
MenuReached(t) ==
    tasks[t].kind = "message" /\ (tasks[t].pc = "hm_menu" \/ tasks[t].markup # <<>>)

C8_OnlyWithCodecField ==
    \A t \in Tasks :
        MenuReached(t)
            => tasks[t].video_formats =
                 SelectSeq(tasks[t].formats,
                           LAMBDA f : "vcodec" \in DOMAIN f /\ f.vcodec # "none")

(***************************************************************************)
(* C8 amended: the list handed to the quality menu is the gateway list     *)
(* without the renditions whose vcodec is 'none'; a rendition with no      *)
(* vcodec field is kept, and the order is the gateway's.                   *)
(***************************************************************************)
C8_AllButAudioOnly ==
    \A t \in Tasks :
        MenuReached(t)
            => tasks[t].video_formats =
                 SelectSeq(tasks[t].formats,
                           LAMBDA f : "vcodec" \notin DOMAIN f \/ f.vcodec # "none")

C8_Witness ==
    \E t \in Tasks :
        /\ MenuReached(t)
        /\ tasks[t].markup # <<>>
        /\ Len(tasks[t].video_formats) < Len(tasks[t].formats)
        /\ \E i \in DOMAIN tasks[t].video_formats :
              "vcodec" \notin DOMAIN tasks[t].video_formats[i]

(***************************************************************************)
(* C9: when the gateway's list has no video-capable entry (empty or all    *)
(* audio-only) handle_message replies 'unavailable', sends no menu and     *)
(* stores no PendingRequest.                                               *)
(***************************************************************************)
AllAudioOnly(formats) ==
    \A i \in DOMAIN formats : "vcodec" \in DOMAIN formats[i] /\ formats[i].vcodec = "none"

C9_NoVideoFormats ==
    \A t \in Tasks :
        (tasks[t].kind = "message" /\ tasks[t].info = "dict" /\ AllAudioOnly(tasks[t].formats))
            => /\ user_data = tasks[t].ud0
               /\ tasks[t].markup = <<>>
               /\ ~HasCall(t, "reply_text", ChooseQuality)
               /\ Sent(t) = IF tasks[t].pc = "hm_unavailable"
                            THEN << <<"reply_text", Analyzing>> >>
                            ELSE << <<"reply_text", Analyzing>>,
                                    <<"reply_text", UnavailableNotice>> >>

C9_Witness ==
    \E t \in Tasks :
        /\ Over(t, "message")
        /\ tasks[t].info = "dict"
        /\ tasks[t].formats # <<>>
        /\ AllAudioOnly(tasks[t].formats)
        /\ HasCall(t, "reply_text", UnavailableNotice)

(***************************************************************************)
(* C10: for a text with a recognized domain handle_message issues exactly  *)
(* one 'analyzing' acknowledgment, and it precedes every gateway query.    *)
(***************************************************************************)
IsAck(c) == c.op = "reply_text" /\ c.a = Analyzing

C10_AckBeforeQuery ==
    \A t \in Tasks :
        (tasks[t].kind = "message" /\ ~NoDomain(tasks[t].text))
            => LET calls == CallsOf(t)
                   acks == {i \in DOMAIN calls : IsAck(calls[i])}
               IN  /\ Cardinality(acks) = IF tasks[t].pc = "hm_ack" THEN 0 ELSE 1
                   /\ \A i \in DOMAIN calls :
                         calls[i].op = "extract_info" => \E j \in acks : j < i

C10_Witness ==
    \E t \in Tasks :
        /\ Over(t, "message")
        /\ HasOp(t, "extract_info")
        /\ Cardinality({i \in DOMAIN CallsOf(t) : IsAck(CallsOf(t)[i])}) = 1

C12_UploadsOwnDownload ==
    \A t \in Tasks :
        (tasks[t].kind = "quality" /\ HasOp(t, "send_video"))
            => tasks[t].video_path = tasks[t].wrote

(***************************************************************************)
(* C13: when the gateway gives no info for a recognized link (exception or *)
(* None), handle_message replies 'could not get video info' after the      *)
(* acknowledgment, sends no menu and leaves the session store as it was.   *)
(***************************************************************************)
C13_NoInfo ==
    \A t \in Tasks :
        (tasks[t].kind = "message" /\ HasOp(t, "extract_info") /\ tasks[t].info = None)
            => /\ user_data = tasks[t].ud0
               /\ tasks[t].markup = <<>>
               /\ ~HasCall(t, "reply_text", ChooseQuality)
               /\ Sent(t) = IF tasks[t].pc = "hm_noinfo"
                            THEN << <<"reply_text", Analyzing>> >>
                            ELSE << <<"reply_text", Analyzing>>,
                                    <<"reply_text", NoInfoNotice>> >>

C13_Witness ==
    \E t \in Tasks :
        /\ Over(t, "message")
        /\ FailedOp(t, "extract_info")
        /\ DOMAIN user_data # {}
        /\ HasCall(t, "reply_text", NoInfoNotice)

(***************************************************************************)
(* C14: the happy path.  A recognized link with two video renditions gets  *)
(* the acknowledgment and then a menu of three buttons, and the link is    *)
(* stored; a click on 'best' whose calls all succeed makes one gateway     *)
(* download of the stored URL with selector 'best' and, for a file within  *)
(* the size limit, one upload followed by the deletion of the file.        *)
(***************************************************************************)
AllOk(t) == \A i \in DOMAIN CallsOf(t) : CallsOf(t)[i].ok
Ops(t) == [i \in DOMAIN CallsOf(t) |-> CallsOf(t)[i].op]
NotAudioOnly(f) == "vcodec" \notin DOMAIN f \/ f.vcodec # "none"

C14_HappyPath ==
    \A t \in Tasks :
        /\ (/\ Over(t, "message")
            /\ AllOk(t)
            /\ Len(tasks[t].formats) = 2
            /\ \A i \in DOMAIN tasks[t].formats : NotAudioOnly(tasks[t].formats[i]))
              => /\ Ops(t) = <<"reply_text", "extract_info", "reply_text">>
                 /\ Sent(t) = << <<"reply_text", Analyzing>>,
                                 <<"reply_text", ChooseQuality>> >>
                 /\ Len(tasks[t].markup) = 3
                 /\ tasks[t].user \in DOMAIN user_data
                 /\ CallsOf(t)[2].a = user_data[tasks[t].user].url
        /\ (/\ Over(t, "quality")
            /\ tasks[t].data = "quality_best"
            /\ tasks[t].user \in DOMAIN tasks[t].ud0
            /\ AllOk(t)
            /\ tasks[t].video_path # None
            /\ tasks[t].size <= 52428800)
              => /\ Ops(t) = <<"answer", "edit_message_text", "download", "listdir",
                               "getsize", "open", "send_video", "remove">>
                 /\ CallsOf(t)[3].a = tasks[t].ud0[tasks[t].user].url
                 /\ CallsOf(t)[3].b = "best"
                 /\ CallsOf(t)[7].a = tasks[t].video_path
                 /\ CallsOf(t)[8].a = tasks[t].video_path
                 /\ tasks[t].video_path \notin DOMAIN disk

C14_Witness ==
    \E t \in Tasks :
        /\ Over(t, "quality")
        /\ tasks[t].data = "quality_best"
        /\ tasks[t].ud0 = <<[url |-> "youtu.be/abc123"]>>
        /\ AllOk(t)
        /\ tasks[t].wrote = tasks[t].video_path
        /\ tasks[t].size <= 52428800
        /\ Succeeded(t, "send_video")
        /\ Candidates(disk) = {}

(***************************************************************************)
(* C15: once handle_message has reached the menu step, the user's          *)
(* PendingRequest holds the trimmed text of this submission, whatever the  *)
(* store held for the user before.                                         *)
(***************************************************************************)
AllWhite(s) == \A i \in 1..Len(s) : SubSeq(s, i, i) \in {" ", "\t", "\n"}

IsTrimOf(url, raw) ==
    /\ Len(url) > 0 => ~AllWhite(SubSeq(url, 1, 1)) /\ ~AllWhite(SubSeq(url, Len(url), Len(url)))
    /\ \E i \in 0..(Len(raw) - Len(url)) :
          /\ SubSeq(raw, i + 1, i + Len(url)) = url
          /\ AllWhite(SubSeq(raw, 1, i))
          /\ AllWhite(SubSeq(raw, i + Len(url) + 1, Len(raw)))

C15_LatestSubmissionStored ==
    \A t \in Tasks :
        MenuReached(t)
            => /\ tasks[t].user \in DOMAIN user_data
               /\ IsTrimOf(user_data[tasks[t].user].url, tasks[t].raw)

C15_Witness ==
    \E t \in Tasks :
        /\ MenuReached(t)
        /\ tasks[t].user \in DOMAIN tasks[t].ud0
        /\ tasks[t].ud0[tasks[t].user].url # user_data[tasks[t].user].url
        /\ user_data[tasks[t].user].url # tasks[t].raw

(***************************************************************************)
(* C18: user isolation.  A step changes the PendingRequest of user v only  *)
(* when it is a step of handle_message running for v; no handler running   *)
(* for another user (and no start, quality or error handler at all) does.  *)
(***************************************************************************)
Entry(v) == IF v \in DOMAIN user_data THEN user_data[v].url ELSE None

C18_UserIsolation ==
    [][\A v \in Users :
          Entry(v)' # Entry(v)
             => \E t \in Tasks : /\ tasks[t].kind = "message"
                                 /\ tasks[t].pc = "hm_info"
                                 /\ tasks[t].user = v]_vars

C18_Witness ==
    \E t \in Tasks :
        /\ tasks[t].kind = "message"
        /\ tasks[t].pc = "hm_menu"
        /\ user_data # tasks[t].ud0
        /\ \E v \in Users : /\ v # tasks[t].user
                            /\ v \in DOMAIN user_data
                            /\ Entry(v) # Entry(tasks[t].user)

(***************************************************************************)
(* C19: every PendingRequest holds a non-empty URL with a recognized       *)
(* domain, it is written only when the gateway's list had a rendition that *)
(* is not audio-only, and the gateway download is only called with such a  *)
(* URL.                                                                    *)
(***************************************************************************)
IsVideoLink(url) == url # None /\ url # "" /\ ~NoDomain(url)

C19_SessionsAreVideoLinks ==
    /\ \A u \in DOMAIN user_data : IsVideoLink(user_data[u].url)
    /\ \A t \in Tasks :
          /\ \A i \in DOMAIN CallsOf(t) :
                CallsOf(t)[i].op = "download" => IsVideoLink(CallsOf(t)[i].a)
          /\ (tasks[t].kind = "message" /\ user_data # tasks[t].ud0)
                => \E i \in DOMAIN tasks[t].formats : NotAudioOnly(tasks[t].formats[i])

C19_Witness ==
    \E t \in Tasks :
        /\ tasks[t].kind = "quality"
        /\ HasOp(t, "download")
        /\ Cardinality(DOMAIN user_data) > 1

(***************************************************************************)
(* C16: token round trip.  The selector quality_handler parses out of the  *)
(* token of a menu button is the identifier of that button's rendition     *)
(* ('best' for the last button), and the gateway download gets it          *)
(* unchanged.  str.replace removes every 'quality_' of the token, not only *)
(* the prefix.                                                             *)
(***************************************************************************)
C16_TokenRoundTrip ==
    \A t \in Tasks :
        (tasks[t].kind = "quality" /\ tasks[t].quality # None)
            => \A i \in DOMAIN kb_out :
                  tasks[t].data = kb_out[i][1].callback_data
                     => LET id == IF i = Len(kb_out) THEN "best" ELSE kb_in[i].format_id
                        IN  /\ tasks[t].quality = id
                            /\ \A j \in DOMAIN CallsOf(t) :
                                  CallsOf(t)[j].op = "download" => CallsOf(t)[j].b = id

(***************************************************************************)
(* C17 as stated: a quality selection that has ended has exactly one       *)
(* terminal outcome: the expiry, download-error or size notice, the        *)
(* generic error notice, or a video upload.                                *)
(***************************************************************************)
Notices == {ExpiredNotice, DownloadError, TooBigNotice, GenericError}

Delivered(t, op, a) ==
    \E i \in DOMAIN CallsOf(t) :
        CallsOf(t)[i].op = op /\ CallsOf(t)[i].a = a /\ CallsOf(t)[i].ok

Outcomes(t) ==
    {n \in Notices : Delivered(t, "edit_message_text", n)}
        \cup (IF Succeeded(t, "send_video") THEN {"video"} ELSE {})

C17_ExactlyOneOutcome ==
    \A t \in Tasks : Over(t, "quality") => Cardinality(Outcomes(t)) = 1

(***************************************************************************)
(* C17 amended: every quality selection that was started ends.  When none  *)
(* of its transport and file calls raised it has exactly one terminal      *)
(* outcome, and not the generic error notice; it ends with no outcome only *)
(* when an exception left the handler; it has two outcomes only when       *)
(* os.remove raised after the size notice or the upload, the second being  *)
(* the generic error notice.                                               *)
(***************************************************************************)
NoCallRaised(t) ==
    \A i \in DOMAIN CallsOf(t) :
        CallsOf(t)[i].op \in (TransportOps \cup FileOps) => CallsOf(t)[i].ok

OutcomeRule(t) ==
    Over(t, "quality")
        => /\ NoCallRaised(t)
                => Cardinality(Outcomes(t)) = 1 /\ GenericError \notin Outcomes(t)
           /\ Cardinality(Outcomes(t)) = 0 => tasks[t].escaped
           /\ Cardinality(Outcomes(t)) > 1
                => /\ Cardinality(Outcomes(t)) = 2
                   /\ GenericError \in Outcomes(t)
                   /\ FailedOp(t, "remove")

C17_EndsWithOutcome ==
    /\ \A t \in Tasks :
          (tasks[t].kind = "quality" /\ tasks[t].pc # "done") ~> (tasks[t].pc = "done")
    /\ [](\A t \in Tasks : OutcomeRule(t))

C17_Witness ==
    \E t \in Tasks :
        /\ Over(t, "quality")
        /\ NoCallRaised(t)
        /\ Outcomes(t) = {"video"}

====
